---- MODULE Spec2Model ----
(***************************************************************************)
(* gray-matter-rs: the front-matter scanner Matter::parse (src/matter.rs)  *)
(* as a state machine over character sequences (Spec), its wrapper         *)
(* parse_with_struct (SpecStruct, and SpecFair with the fairness of a      *)
(* running call), the indexing, typed extraction, push and insert of Pod   *)
(* (src/value/pod.rs, SpecPod), Pod as a serde Deserializer for integers   *)
(* and enums (SpecDe), and the cursors PodArrayAccess / PodMapAccess with  *)
(* the PodVisitor that rebuilds a Pod (SpecAccess).                        *)
(*                                                                         *)
(* A Rust String / &str is a sequence of one-character strings; an         *)
(* Option<T> is a sequence of length 0 (None) or 1 (Some(x)).              *)
(***************************************************************************)
EXTENDS Integers, Sequences, FiniteSets, TLC

VARIABLES
    delimiter,          \* Matter::delimiter          : String
    close_delimiter,    \* Matter::close_delimiter    : Option<String>
    excerpt_delimiter,  \* Matter::excerpt_delimiter  : Option<String>
    input,              \* the argument of the running parse call
    pc,                 \* "idle" | "loop" | "done": position inside parse
    looking_at,         \* Part: "Matter" | "MaybeExcerpt" | "Content"
    lines,              \* the lines the `for` loop has not consumed yet
    acc,                \* the accumulator String
    parsed_entity,      \* the ParsedEntity under construction / returned
    steps,              \* number of loop iterations executed by this call
    prev,               \* Option<ParsedEntity>: the result whose content
                        \* the running call was given as its input
    with_struct,        \* Option<[target, result]>: the type D and the
                        \* return value of parse_with_struct::<D>
    pod,                \* a Pod owned by the caller
    pod_op,             \* the last operation on `pod`: its arguments, the
                        \* Pod before it and what it returned
    access              \* a PodArrayAccess / PodMapAccess borrowing from
                        \* `pod`, with the calls made on it so far

vars == <<delimiter, close_delimiter, excerpt_delimiter, input, pc,
          looking_at, lines, acc, parsed_entity, steps, prev, with_struct,
          pod, pod_op, access>>

\* the state of a Matter and its running call / of the caller's Pod
matterVars == <<delimiter, close_delimiter, excerpt_delimiter, input, pc,
                looking_at, lines, acc, parsed_entity, steps, prev,
                with_struct>>
podVars == <<pod, pod_op, access>>

----------------------------------------------------------------------------
(* Option<T> *)

None == <<>>
Some(x) == <<x>>
IsSome(o) == Len(o) = 1
IsNone(o) == Len(o) = 0
UnwrapOr(o, d) == IF Len(o) = 0 THEN d ELSE o[1]

----------------------------------------------------------------------------
(* str primitives used by parse *)

NL == "\n"
CR == "\r"

\* char::is_whitespace, restricted to the characters that occur here
IsWhitespace(c) == c \in {" ", "\t", "\n", "\r"}

RECURSIVE TrimEnd(_)
TrimEnd(s) ==
    IF s = <<>> THEN s
    ELSE IF IsWhitespace(s[Len(s)]) THEN TrimEnd(SubSeq(s, 1, Len(s) - 1))
    ELSE s

RECURSIVE TrimStart(_)
TrimStart(s) ==
    IF s = <<>> THEN s
    ELSE IF IsWhitespace(s[1]) THEN TrimStart(Tail(s))
    ELSE s

Trim(s) == TrimStart(TrimEnd(s))

RECURSIVE TrimStartMatches(_, _)
TrimStartMatches(s, c) ==
    IF s # <<>> /\ s[1] = c THEN TrimStartMatches(Tail(s), c) ELSE s

EndsWith(s, suffix) ==
    /\ Len(suffix) <= Len(s)
    /\ SubSeq(s, Len(s) - Len(suffix) + 1, Len(s)) = suffix

\* str::strip_suffix(..).unwrap(): only applied where EndsWith holds
StripSuffix(s, suffix) == SubSeq(s, 1, Len(s) - Len(suffix))

\* index of the first occurrence of c in s, 0 when there is none
RECURSIVE FindFrom(_, _, _)
FindFrom(s, c, i) ==
    IF i > Len(s) THEN 0
    ELSE IF s[i] = c THEN i
    ELSE FindFrom(s, c, i + 1)

Find(s, c) == FindFrom(s, c, 1)

\* str::split_once('\n'): Some((before, after)) or None
SplitOnce(s, c) ==
    LET i == Find(s, c)
    IN  IF i = 0 THEN None
        ELSE Some(<<SubSeq(s, 1, i - 1), SubSeq(s, i + 1, Len(s))>>)

\* one item of str::lines(): the terminating "\n" is already cut off, a
\* "\r" directly before it is cut off as well
StripCR(l) ==
    IF l # <<>> /\ l[Len(l)] = CR THEN SubSeq(l, 1, Len(l) - 1) ELSE l

\* str::lines(): split at "\n" or "\r\n"; the final line ending is optional
RECURSIVE Lines(_)
Lines(s) ==
    IF s = <<>> THEN <<>>
    ELSE LET i == Find(s, NL)
         IN  IF i = 0 THEN <<s>>
             ELSE <<StripCR(SubSeq(s, 1, i - 1))>>
                      \o Lines(SubSeq(s, i + 1, Len(s)))

----------------------------------------------------------------------------
(* Pod, the engine and the entity *)

PodNull == [tag |-> "Null"]
PodString(s) == [tag |-> "String", val |-> s]
PodInteger(i) == [tag |-> "Integer", val |-> i]
PodFloat(f) == [tag |-> "Float", val |-> f]
PodBoolean(b) == [tag |-> "Boolean", val |-> b]
\* Vec<Pod> is a sequence, HashMap<String, Pod> a function on its key set
PodArray(vec) == [tag |-> "Array", val |-> vec]
PodHash(hash) == [tag |-> "Hash", val |-> hash]

\* no operation has been applied to `pod` yet
NoOp == [op |-> "none", before |-> PodNull, args |-> <<>>,
         out |-> [kind |-> "none"]]

\* no cursor has been created
NoAccess == [kind |-> "none", iter |-> <<>>, value |-> <<>>, calls |-> <<>>]

\* a line that YAML reads as a comment: optional indentation, then '#'
IsCommentLine(l) == LET t == TrimStart(l) IN t # <<>> /\ t[1] = "#"

\* YamlLoader::load_from_str of the yaml crate, reduced to the three outcomes
\* YAML::parse distinguishes: Err, Ok(no document), Ok(first document).
\* Text made of comment lines only holds no document; an unclosed '[' is a
\* scan error; any other text of the alphabet is a plain scalar.
YamlLoadFromStr(content) ==
    IF Find(content, "[") # 0 THEN [ok |-> FALSE, docs |-> <<>>]
    ELSE IF \A i \in 1..Len(Lines(content)) :
               LET l == Lines(content)[i]
               IN  IsCommentLine(l) \/ TrimEnd(l) = <<>>
         THEN [ok |-> TRUE, docs |-> <<>>]
         ELSE [ok |-> TRUE, docs |-> <<PodString(content)>>]

\* impl Engine for YAML: fn parse(content: &str) -> Pod
EngineParse(content) ==
    LET r == YamlLoadFromStr(content)
    IN  IF r.ok
        THEN IF r.docs # <<>> THEN r.docs[1] ELSE PodNull
        ELSE PodNull

\* the types D that parse_with_struct is instantiated with
Targets == {"String", "()", "Option<String>", "struct"}

\* <D as Deserialize>::deserialize(&Pod) for the Pods the engine returns:
\* String calls deserialize_string, () deserialize_unit, Option<String>
\* deserialize_option and then deserialize_string, a struct deserialize_struct
Deserialize(p, D) ==
    IF D = "String"
    THEN IF p.tag = "String" THEN [ok |-> TRUE, val |-> p.val]
         ELSE [ok |-> FALSE, val |-> "expected string"]
    ELSE IF D = "()"
    THEN IF p.tag = "Null" THEN [ok |-> TRUE, val |-> "()"]
         ELSE [ok |-> FALSE, val |-> "expected null"]
    ELSE IF D = "Option<String>"
    THEN IF p.tag = "Null" THEN [ok |-> TRUE, val |-> None]
         ELSE IF p.tag = "String" THEN [ok |-> TRUE, val |-> Some(p.val)]
         ELSE [ok |-> FALSE, val |-> "expected string"]
    ELSE IF p.tag = "Hash" THEN [ok |-> TRUE, val |-> p.val]
         ELSE [ok |-> FALSE, val |-> "expected hash map"]

\* the ParsedEntity that parse starts from
NewParsedEntity(in) ==
    [data |-> None, excerpt |-> None, content |-> <<>>,
     orig |-> in, matter |-> <<>>]

----------------------------------------------------------------------------
(* The steps of Matter::parse *)

\* mutant: "<" for "<="
FastRejectStrict(in, delim) == in = <<>> \/ Len(in) < Len(delim)

\* "input.is_empty() || input.len() <= self.delimiter.len()"
FastReject(in, delim) == in = <<>> \/ Len(in) <= Len(delim)

\* "self.excerpt_delimiter.clone().unwrap_or_else(|| self.delimiter.clone())"
ExcerptDelimiter == UnwrapOr(excerpt_delimiter, delimiter)

\* "self.close_delimiter.clone().unwrap_or_else(|| self.delimiter.clone())"
CloseDelimiter == UnwrapOr(close_delimiter, delimiter)

StartsWith(s, prefix) ==
    Len(prefix) <= Len(s) /\ SubSeq(s, 1, Len(prefix)) = prefix

\* mutant: the first line is tested with starts_with instead of ==
FirstSplitStartsWith(in, delim) ==
    LET sp == SplitOnce(in, NL)
    IN  IF IsSome(sp) /\ StartsWith(sp[1][1], delim)
        THEN [looking_at |-> "Matter", lines |-> Lines(sp[1][2])]
        ELSE [looking_at |-> "MaybeExcerpt", lines |-> Lines(in)]

\* mutant: the first line is compared with the default delimiter "---"
FirstSplitDefaultDelimiter(in, delim) ==
    LET sp == SplitOnce(in, NL)
    IN  IF IsSome(sp) /\ TrimEnd(sp[1][1]) = <<"-", "-", "-">>
        THEN [looking_at |-> "Matter", lines |-> Lines(sp[1][2])]
        ELSE [looking_at |-> "MaybeExcerpt", lines |-> Lines(in)]

\* mutant: the opening line is handed to the loop again
FirstSplitKeepsFirst(in, delim) ==
    LET sp == SplitOnce(in, NL)
    IN  IF IsSome(sp) /\ TrimEnd(sp[1][1]) = delim
        THEN [looking_at |-> "Matter", lines |-> Lines(in)]
        ELSE [looking_at |-> "MaybeExcerpt", lines |-> Lines(in)]

\* the match on input.split_once('\n'): (looking_at, lines)
FirstSplit(in, delim) ==
    LET sp == SplitOnce(in, NL)
    IN  IF IsSome(sp) /\ TrimEnd(sp[1][1]) = delim
        THEN [looking_at |-> "Matter", lines |-> Lines(sp[1][2])]
        ELSE [looking_at |-> "MaybeExcerpt", lines |-> Lines(in)]

\* mutant: the closing line is tested with ends_with instead of ==
ClosesMatterSuffix(line, delim, close) ==
    EndsWith(line, delim) \/ EndsWith(line, close)

\* mutant: the closing line is tested with starts_with instead of ==
ClosesMatterPrefix(line, delim, close) ==
    StartsWith(line, delim) \/ StartsWith(line, close)

\* is `line` (already trim_end-ed) a closing line of the block?
ClosesMatter(line, delim, close) == line = delim \/ line = close

\* mutant: only a line that is the excerpt delimiter ends the excerpt
EndsExcerptWholeLine(line, exd) == line = exd

\* does `line` (already trim_end-ed) end the excerpt?
EndsExcerpt(line, exd) == EndsWith(line, exd)

\* the excerpt String built at the boundary line
ExcerptOf(a, line, exd) ==
    TrimEnd(TrimStartMatches(a, NL) \o <<NL>> \o StripSuffix(line, exd))

\* "write!(&mut acc, "\n{line}")"
Push(a, line) == a \o <<NL>> \o line

\* mutant: the accumulator is trimmed of all leading whitespace
ContentOfTrimStart(a) == TrimStart(a)

\* "parsed_entity.content = acc.trim_start_matches('\n').to_string()"
ContentOf(a) == TrimStartMatches(a, NL)

----------------------------------------------------------------------------
(* Configurations and inputs the caller supplies *)

\* longest input of the default configuration, in lines
MaxLines == 4

Dash3  == <<"-", "-", "-">>                 \* "---"
Open4  == <<"<", "!", "-", "-">>            \* "<!--"
Close3 == <<"-", "-", ">">>                 \* "-->"
Cut3   == <<"<", "!", ">">>                 \* "<!>"

\* Matter::new(): the defaults
CfgDefault ==
    [delimiter |-> Dash3, close_delimiter |-> None, excerpt_delimiter |-> None]
\* a caller-set excerpt delimiter
CfgExcerpt ==
    [delimiter |-> Dash3, close_delimiter |-> None,
     excerpt_delimiter |-> Some(Cut3)]
\* caller-set asymmetric open / close delimiters
CfgAsym ==
    [delimiter |-> Open4, close_delimiter |-> Some(Close3),
     excerpt_delimiter |-> None]

Configs == {CfgDefault, CfgExcerpt, CfgAsym}

\* the lines inputs are made of, per configuration
LinePool(cfg) ==
    IF cfg = CfgDefault THEN
        { Dash3,                            \* "---"
          Dash3 \o <<" ">>,                 \* "--- "
          Dash3 \o <<"a">>,                 \* "---a"
          <<"a">>,                          \* "a"
          <<"a">> \o Dash3,                 \* "a---"
          <<"a">> \o Dash3 \o <<" ">>,       \* "a--- "
          <<>>,                             \* ""
          <<" ", "a", " ">>,                \* " a "
          <<" ">>,                          \* " "
          <<"#", "a">>,                     \* "#a"
          <<"[">> }                         \* "[" (malformed YAML)
    ELSE IF cfg = CfgExcerpt THEN
        { Dash3, <<"a">>, <<"a">> \o Cut3, Cut3, <<>>, <<"b", " ">> }
    ELSE
        { Open4, Close3, <<"a">>, <<"a">> \o Close3, <<>>, Dash3 }

LineBound(cfg) == IF cfg = CfgDefault THEN MaxLines ELSE MaxLines + 1

\* [T]::join("\n")
RECURSIVE Join(_)
Join(ls) ==
    IF ls = <<>> THEN <<>>
    ELSE IF Len(ls) = 1 THEN ls[1]
    ELSE ls[1] \o <<NL>> \o Join(Tail(ls))

LineSeqs(cfg) ==
    UNION { [1..n -> LinePool(cfg)] : n \in 0..LineBound(cfg) }

Inputs(cfg) == { Join(ls) : ls \in LineSeqs(cfg) }

\* the documents given to parse_with_struct
MaxStructLines == 4

StructLinePool ==
    { Dash3, <<"a">>, <<"a">> \o Dash3, <<>>, <<"#", "a">> }

StructInputs ==
    { Join(ls) :
        ls \in UNION { [1..n -> StructLinePool] : n \in 0..MaxStructLines } }

----------------------------------------------------------------------------
(* State machine *)

Idle(cfg) ==
    /\ delimiter = cfg.delimiter
    /\ close_delimiter = cfg.close_delimiter
    /\ excerpt_delimiter = cfg.excerpt_delimiter
    /\ input = <<>>
    /\ pc = "idle"
    /\ looking_at = "MaybeExcerpt"
    /\ lines = <<>>
    /\ acc = <<>>
    /\ parsed_entity = NewParsedEntity(<<>>)
    /\ steps = 0
    /\ prev = None
    /\ with_struct = None
    /\ pod = PodNull
    /\ pod_op = NoOp
    /\ access = NoAccess

\* Matter::new()
Init == Idle(CfgDefault)

CurrentCfg ==
    [delimiter |-> delimiter, close_delimiter |-> close_delimiter,
     excerpt_delimiter |-> excerpt_delimiter]

\* the caller assigns the public delimiter fields between two parse calls
Configure ==
    /\ pc = "idle"
    /\ \E cfg \in Configs \ {CurrentCfg} :
          /\ delimiter' = cfg.delimiter
          /\ close_delimiter' = cfg.close_delimiter
          /\ excerpt_delimiter' = cfg.excerpt_delimiter
    /\ UNCHANGED <<input, pc, looking_at, lines, acc, parsed_entity, steps,
                   prev, with_struct>>
    /\ UNCHANGED podVars

\* parse(in), from entry to the start of the `for` loop (or the early
\* return)
Enter(in) ==
    /\ input' = in
    /\ parsed_entity' = NewParsedEntity(in)
    /\ IF FastReject(in, delimiter)
       THEN /\ pc' = "done"
            /\ looking_at' = "MaybeExcerpt"
            /\ lines' = <<>>
       ELSE LET fs == FirstSplit(in, delimiter)
            IN  /\ pc' = "loop"
                /\ looking_at' = fs.looking_at
                /\ lines' = fs.lines
    /\ acc' = <<>>
    /\ steps' = 0
    /\ with_struct' = None
    /\ UNCHANGED <<delimiter, close_delimiter, excerpt_delimiter>>
    /\ UNCHANGED podVars

\* the caller parses a document
ParseEnter ==
    /\ pc = "idle"
    /\ \E in \in Inputs(CurrentCfg) : Enter(in)
    /\ prev' = None

\* the caller parses the content of a result that holds front matter
Reparse ==
    /\ pc = "done"
    /\ prev = None
    /\ IsSome(parsed_entity.data)
    /\ Enter(parsed_entity.content)
    /\ prev' = Some(parsed_entity)

\* mutant: a delimiter line closes a block in whatever part it is met
StepKindRogue(part, line, delim, close, exd) ==
    IF ClosesMatter(line, delim, close) THEN "close"
    ELSE IF part = "MaybeExcerpt" /\ EndsExcerpt(line, exd) THEN "excerpt"
    ELSE "line"

\* mutant: a delimiter line met in the content starts over
StepKindBackward(part, line, delim, close, exd) ==
    IF part \in {"Matter", "Content"} /\ ClosesMatter(line, delim, close)
    THEN "close"
    ELSE IF part = "MaybeExcerpt" /\ EndsExcerpt(line, exd) THEN "excerpt"
    ELSE "line"

\* mutant: the excerpt boundary is looked for inside the block as well
StepKindExcerptInMatter(part, line, delim, close, exd) ==
    IF part = "Matter" /\ ClosesMatter(line, delim, close) THEN "close"
    ELSE IF part \in {"Matter", "MaybeExcerpt"} /\ EndsExcerpt(line, exd)
    THEN "excerpt"
    ELSE "line"

\* "match looking_at": which arm, and which `if` inside it, handles `line`
StepKind(part, line, delim, close, exd) ==
    IF part = "Matter" /\ ClosesMatter(line, delim, close) THEN "close"
    ELSE IF part = "MaybeExcerpt" /\ EndsExcerpt(line, exd) THEN "excerpt"
    ELSE "line"

\* mutant: the engine is run on a blank block as well
SetMatterAlways(pe, matter) ==
    [pe EXCEPT !.data = Some(EngineParse(matter)), !.matter = matter]

\* mutant: the text of the block is stored, the engine is not run
SetMatterTextOnly(pe, matter) ==
    [pe EXCEPT !.matter = matter]

\* "if !matter.is_empty() { data = Some(T::parse(&matter)); matter = matter }"
SetMatter(pe, matter) ==
    IF matter # <<>>
    THEN [pe EXCEPT !.data = Some(EngineParse(matter)), !.matter = matter]
    ELSE pe

\* one iteration of "for line in lines"
LoopStep ==
    /\ pc = "loop"
    /\ lines # <<>>
    /\ LET line == TrimEnd(Head(lines))
           kind == StepKind(looking_at, line, delimiter, CloseDelimiter,
                            ExcerptDelimiter)
       IN  IF kind = "close"
           THEN \* the closing line: hand the block to the engine, `continue`
                /\ parsed_entity' = SetMatter(parsed_entity, Trim(acc))
                /\ acc' = <<>>
                /\ looking_at' = "MaybeExcerpt"
           ELSE IF kind = "excerpt"
           THEN /\ parsed_entity' =
                      [parsed_entity EXCEPT
                          !.excerpt = Some(ExcerptOf(acc, line, ExcerptDelimiter))]
                /\ looking_at' = "Content"
                /\ acc' = Push(acc, line)
           ELSE /\ acc' = Push(acc, line)
                /\ UNCHANGED <<parsed_entity, looking_at>>
    /\ lines' = Tail(lines)
    /\ steps' = steps + 1
    /\ UNCHANGED <<delimiter, close_delimiter, excerpt_delimiter, input, pc,
                   prev, with_struct>>
    /\ UNCHANGED podVars

\* the loop is exhausted: set content and return
ParseFinish ==
    /\ pc = "loop"
    /\ lines = <<>>
    /\ parsed_entity' = [parsed_entity EXCEPT !.content = ContentOf(acc)]
    /\ pc' = "done"
    /\ UNCHANGED <<delimiter, close_delimiter, excerpt_delimiter, input,
                   looking_at, lines, acc, steps, prev, with_struct>>
    /\ UNCHANGED podVars

\* mutant: a value that cannot be deserialized is returned as unit data
ParseWithStructLenient(pe, D) ==
    IF IsNone(pe.data) THEN None
    ELSE LET r == Deserialize(pe.data[1], D)
         IN  Some([data |-> r.val, content |-> pe.content,
                   excerpt |-> pe.excerpt, orig |-> pe.orig,
                   matter |-> pe.matter])

\* the body of parse_with_struct::<D> after its call of parse:
\* "let data: D = parsed_entity.data?.deserialize().ok()?; Some(..)"
ParseWithStruct(pe, D) ==
    IF IsNone(pe.data) THEN None
    ELSE LET r == Deserialize(pe.data[1], D)
         IN  IF ~r.ok THEN None
             ELSE Some([data |-> r.val, content |-> pe.content,
                        excerpt |-> pe.excerpt, orig |-> pe.orig,
                        matter |-> pe.matter])

\* the caller calls parse_with_struct::<D>, which starts with parse(input)
StructEnter ==
    /\ pc = "idle"
    /\ \E in \in StructInputs : Enter(in)
    /\ prev' = None

\* the call was parse_with_struct::<D>: parse has returned, wrap its result
WithStruct ==
    /\ pc = "done"
    /\ with_struct = None
    /\ \E D \in Targets :
          with_struct' =
              Some([target |-> D, result |-> ParseWithStruct(parsed_entity, D)])
    /\ UNCHANGED <<delimiter, close_delimiter, excerpt_delimiter, input, pc,
                   looking_at, lines, acc, parsed_entity, steps, prev>>
    /\ UNCHANGED podVars

\* the caller drops the result; the Matter is ready for the next call
Return ==
    /\ pc = "done"
    /\ pc' = "idle"
    /\ input' = <<>>
    /\ looking_at' = "MaybeExcerpt"
    /\ lines' = <<>>
    /\ acc' = <<>>
    /\ parsed_entity' = NewParsedEntity(<<>>)
    /\ steps' = 0
    /\ prev' = None
    /\ with_struct' = None
    /\ UNCHANGED <<delimiter, close_delimiter, excerpt_delimiter>>
    /\ UNCHANGED podVars

Next ==
    Configure \/ ParseEnter \/ Reparse \/ LoopStep \/ ParseFinish \/ Return

Spec == Init /\ [][Next]_vars

\* calls of parse_with_struct on a Matter with the default delimiters
NextStruct ==
    StructEnter \/ LoopStep \/ ParseFinish \/ WithStruct \/ Return

SpecStruct == Init /\ [][NextStruct]_vars

\* the same calls, run as the thread runs them: a call that has been entered
\* executes its loop and returns without waiting for anything
SpecFair ==
    /\ Init
    /\ [][NextStruct]_vars
    /\ WF_vars(LoopStep)
    /\ WF_vars(ParseFinish)

----------------------------------------------------------------------------
(* Pod: indexing and typed extraction (src/value/pod.rs) *)

\* bounds of the Pods the caller builds
MaxArrayLen == 2
Indices == 0..(MaxArrayLen + 1)
Keys == {"hello", "bool"}

\* one value of every scalar tag (the Float stands for 16.01)
Scalars ==
    { PodNull, PodString(<<"a">>), PodInteger(16), PodFloat(1601),
      PodBoolean(TRUE) }

Arrays ==
    { PodArray(vec) :
        vec \in UNION { [1..n -> Scalars] : n \in 0..MaxArrayLen } }

Hashes ==
    { PodHash(hash) : hash \in UNION { [K -> Scalars] : K \in SUBSET Keys } }

PodValues == Scalars \cup Arrays \cup Hashes

\* what an operation gives back to the caller
Returned(x) == [kind |-> "value", val |-> x]
Panicked == [kind |-> "panic"]
TypeError(expected) == [kind |-> "TypeError", val |-> expected]

\* impl Index<usize> for Pod
IndexUsize(p, index) ==
    IF p.tag = "Array"
    THEN IF index < Len(p.val) THEN Returned(p.val[index + 1])
         ELSE Returned(PodNull)              \* vec.get(index).unwrap_or(&NULL)
    ELSE Returned(PodNull)

\* impl Index<String> for Pod; HashMap's index panics on a missing key
IndexString(p, key) ==
    IF p.tag = "Hash"
    THEN IF key \in DOMAIN p.val THEN Returned(p.val[key])   \* &hash[&index]
         ELSE Panicked
    ELSE Returned(PodNull)

\* Vec::push
VecPush(vec, x) == Append(vec, x)

\* HashMap::insert, and the slot of entry(key).or_insert(..) once assigned
HashInsert(hash, key, x) ==
    [k \in DOMAIN hash \cup {key} |-> IF k = key THEN x ELSE hash[k]]

\* `pod[index] = v` through impl IndexMut<usize> for Pod: the slot that
\* index_mut returns is assigned v
RECURSIVE AssignUsize(_, _, _)
AssignUsize(p, index, v) ==
    IF p.tag = "Array"
    THEN IF index < Len(p.val)
         THEN PodArray([p.val EXCEPT ![index + 1] = v])
         ELSE \* vec.push(Pod::Null); vec.last_mut().unwrap()
              LET pushed == VecPush(p.val, PodNull)
              IN  PodArray([pushed EXCEPT ![Len(pushed)] = v])
    ELSE \* *self = Pod::new_array(); self.push(Pod::Null); self.index_mut(index)
         AssignUsize(PodArray(VecPush(<<>>, PodNull)), index, v)

\* mutant: a write on a non-Hash inserts nothing
AssignStringKeepsEmpty(p, key, v) ==
    IF p.tag = "Hash" THEN PodHash(HashInsert(p.val, key, v))
    ELSE PodHash(<<>>)

\* `pod[key] = v` through impl IndexMut<String> for Pod
RECURSIVE AssignString(_, _, _)
AssignString(p, key, v) ==
    IF p.tag = "Hash"
    THEN PodHash(HashInsert(p.val, key, v))  \* hash.entry(index).or_insert(Null)
    ELSE AssignString(PodHash(<<>>), key, v) \* *self = Pod::new_hash()

\* the typed extractions and the tag each one matches
Extractions ==
    { "as_string", "as_i64", "as_f64", "as_bool", "as_vec", "as_hashmap" }

ExpectedTag(method) ==
    CASE method = "as_string"  -> "String"
      [] method = "as_i64"     -> "Integer"
      [] method = "as_f64"     -> "Float"
      [] method = "as_bool"    -> "Boolean"
      [] method = "as_vec"     -> "Array"
      [] method = "as_hashmap" -> "Hash"

\* mutant: as_f64 converts an Integer
AsTypedCoercing(p, method) ==
    IF p.tag = ExpectedTag(method) \/ (method = "as_f64" /\ p.tag = "Integer")
    THEN Returned(p.val)
    ELSE TypeError(ExpectedTag(method))

\* Pod::as_string .. Pod::as_hashmap
AsTyped(p, method) ==
    IF p.tag = ExpectedTag(method) THEN Returned(p.val)
    ELSE TypeError(ExpectedTag(method))

\* mutant: push turns a Pod that is no Array into one, as index_mut does
PodPushCoercing(p, value) ==
    IF p.tag = "Array"
    THEN [pod |-> PodArray(VecPush(p.val, value)), out |-> Returned("()")]
    ELSE [pod |-> PodArray(<<value>>), out |-> Returned("()")]

\* Pod::push
PodPush(p, value) ==
    IF p.tag = "Array"
    THEN [pod |-> PodArray(VecPush(p.val, value)), out |-> Returned("()")]
    ELSE [pod |-> p, out |-> TypeError("Array")]

\* Pod::insert
PodInsert(p, key, val) ==
    IF p.tag = "Hash"
    THEN [pod |-> PodHash(HashInsert(p.val, key, val)),
          out |-> Returned("()")]
    ELSE [pod |-> p, out |-> TypeError("Hash")]

\* the caller starts with some Pod
InitPod ==
    /\ delimiter = CfgDefault.delimiter
    /\ close_delimiter = CfgDefault.close_delimiter
    /\ excerpt_delimiter = CfgDefault.excerpt_delimiter
    /\ input = <<>> /\ pc = "idle" /\ looking_at = "MaybeExcerpt"
    /\ lines = <<>> /\ acc = <<>> /\ parsed_entity = NewParsedEntity(<<>>)
    /\ steps = 0 /\ prev = None /\ with_struct = None
    /\ pod \in PodValues
    /\ pod_op = NoOp
    /\ access = NoAccess

\* let x = &pod[index];
ReadUsize ==
    /\ \E index \in Indices :
          pod_op' = [op |-> "index_usize", before |-> pod,
                     args |-> <<index>>, out |-> IndexUsize(pod, index)]
    /\ UNCHANGED pod
    /\ UNCHANGED <<matterVars, access>>

\* let x = &pod[key];
ReadString ==
    /\ \E key \in Keys :
          pod_op' = [op |-> "index_string", before |-> pod,
                     args |-> <<key>>, out |-> IndexString(pod, key)]
    /\ UNCHANGED pod
    /\ UNCHANGED <<matterVars, access>>

\* pod[index] = v;
WriteUsize ==
    /\ pod.tag = "Array" => Len(pod.val) <= MaxArrayLen
    /\ \E index \in Indices, v \in Scalars :
          /\ pod' = AssignUsize(pod, index, v)
          /\ pod_op' = [op |-> "index_mut_usize", before |-> pod,
                        args |-> <<index, v>>, out |-> Returned(v)]
    /\ UNCHANGED <<matterVars, access>>

\* pod[key] = v;
WriteString ==
    /\ \E key \in Keys, v \in Scalars :
          /\ pod' = AssignString(pod, key, v)
          /\ pod_op' = [op |-> "index_mut_string", before |-> pod,
                        args |-> <<key, v>>, out |-> Returned(v)]
    /\ UNCHANGED <<matterVars, access>>

\* let r = pod.as_string(); (or as_i64, as_f64, as_bool, as_vec, as_hashmap)
Extract ==
    /\ \E method \in Extractions :
          pod_op' = [op |-> method, before |-> pod, args |-> <<>>,
                     out |-> AsTyped(pod, method)]
    /\ UNCHANGED pod
    /\ UNCHANGED <<matterVars, access>>

\* let r = pod.push(v);
CallPush ==
    /\ pod.tag = "Array" => Len(pod.val) <= MaxArrayLen
    /\ \E v \in Scalars :
          /\ pod' = PodPush(pod, v).pod
          /\ pod_op' = [op |-> "push", before |-> pod, args |-> <<v>>,
                        out |-> PodPush(pod, v).out]
    /\ UNCHANGED <<matterVars, access>>

\* let r = pod.insert(key, v);
CallInsert ==
    /\ \E key \in Keys, v \in Scalars :
          /\ pod' = PodInsert(pod, key, v).pod
          /\ pod_op' = [op |-> "insert", before |-> pod, args |-> <<key, v>>,
                        out |-> PodInsert(pod, key, v).out]
    /\ UNCHANGED <<matterVars, access>>

NextPod ==
    \/ ReadUsize \/ ReadString \/ WriteUsize \/ WriteString \/ Extract
    \/ CallPush \/ CallInsert

SpecPod == InitPod /\ [][NextPod]_vars

----------------------------------------------------------------------------
(* Pod as a serde Deserializer (src/value/pod.rs, impl Deserializer for &Pod) *)

\* the integer targets of serde and their widths
IntTargets == {"i8", "i16", "i32", "i64", "u8", "u16", "u32", "u64"}

Width(t) ==
    CASE t \in {"i8", "u8"}   -> 8
      [] t \in {"i16", "u16"} -> 16
      [] t \in {"i32", "u32"} -> 32
      [] t \in {"i64", "u64"} -> 64

Signed(t) == t \in {"i8", "i16", "i32", "i64"}

\* the i64 values stored in the Pods that are deserialized; every one of
\* them lies within i32
IntSamples ==
    { -32769, -129, -128, -1, 0, 16, 127, 128, 255, 256, 300, 32767, 32768,
      65535, 65536 }

\* the number `wraps * 2^width + val`; a cast result is written in this form
\* because 2^32 and 2^64 are beyond the integers of the model checker
Number(val, wraps, width) == [val |-> val, wraps |-> wraps, width |-> width]
Exactly(n) == Number(n, 0, 0)

\* the Rust cast `n as t` of an i64 (two's complement truncation)
Cast(n, t) ==
    IF Width(t) <= 16
    THEN LET m == n % (2 ^ Width(t))
         IN  IF Signed(t) /\ m >= 2 ^ (Width(t) - 1)
             THEN Exactly(m - 2 ^ Width(t))
             ELSE Exactly(m)
    ELSE IF Signed(t) \/ n >= 0
    THEN Exactly(n)                     \* n lies within i32: it is kept
    ELSE Number(n, 1, Width(t))         \* negative as u32 / u64: n + 2^width

\* deserialize_i8 .. deserialize_u64 with a visitor that keeps what it is
\* given (the Deserialize impls of the integer types)
DeserializeInteger(p, t) ==
    IF p.tag = "Integer" THEN Returned(Cast(p.val, t))
    ELSE [kind |-> "PodDeserializeError", val |-> "expected integer"]

\* a failure of the Deserializer
PodDeserializeError(message) ==
    [kind |-> "PodDeserializeError", val |-> message]

\* the enum that is asked for: enum E { u, n(Pod), t(Pod), s { .. } };
\* a variant name is one character long and written as that character
EnumVariants ==
    [u |-> "unit", n |-> "newtype", t |-> "tuple", s |-> "struct"]

\* a String holding a variant name, as the key it stands for
NameOf(str) == IF Len(str) = 1 THEN str[1] ELSE "?"

\* VariantAccess for PodStringEnumVariantAccess: only unit_variant succeeds
StringVariant(name) ==
    IF EnumVariants[name] = "unit"
    THEN Returned([variant |-> name, payload |-> PodNull])
    ELSE PodDeserializeError("variant not supported for string enum")

\* VariantAccess for PodEnumAccess
HashVariant(key, value) ==
    LET ok == Returned([variant |-> key, payload |-> value])
    IN  CASE EnumVariants[key] = "unit" ->
                IF value.tag = "Null" THEN ok
                ELSE PodDeserializeError("expected null for unit variant")
          [] EnumVariants[key] = "newtype" -> ok   \* seed.deserialize(value)
          [] EnumVariants[key] = "tuple" ->
                IF value.tag = "Array" THEN ok
                ELSE PodDeserializeError("expected array for tuple variant")
          [] EnumVariants[key] = "struct" ->
                IF value.tag = "Hash" THEN ok
                ELSE PodDeserializeError("expected hash map for struct variant")

\* mutant: a Hash with several entries is read as its first entry
DeserializeEnumFirstEntry(p) ==
    IF p.tag = "String"
    THEN IF NameOf(p.val) \in DOMAIN EnumVariants
         THEN StringVariant(NameOf(p.val))
         ELSE PodDeserializeError("unknown variant")
    ELSE IF p.tag = "Hash"
    THEN IF Cardinality(DOMAIN p.val) >= 1
         THEN LET key == CHOOSE k \in DOMAIN p.val : TRUE
              IN  IF key \in DOMAIN EnumVariants
                  THEN HashVariant(key, p.val[key])
                  ELSE PodDeserializeError("unknown variant")
         ELSE PodDeserializeError("expected single-key map for enum")
    ELSE PodDeserializeError("expected string or single-key map for enum")

\* deserialize_enum with the visitor of E: the variant name is looked up
\* (variant_seed), then the payload is asked for according to its kind
DeserializeEnum(p) ==
    IF p.tag = "String"
    THEN IF NameOf(p.val) \in DOMAIN EnumVariants
         THEN StringVariant(NameOf(p.val))
         ELSE PodDeserializeError("unknown variant")
    ELSE IF p.tag = "Hash"
    THEN IF Cardinality(DOMAIN p.val) = 1
         THEN LET key == CHOOSE k \in DOMAIN p.val : TRUE
              IN  IF key \in DOMAIN EnumVariants
                  THEN HashVariant(key, p.val[key])
                  ELSE PodDeserializeError("unknown variant")
         ELSE PodDeserializeError("expected single-key map for enum")
    ELSE PodDeserializeError("expected string or single-key map for enum")

\* Pods that are asked for as an enum: variant names, one-entry Hashes with
\* every kind of payload, the empty Hash and Hashes with two entries
VariantNames == {"u", "n", "t", "s", "x"}

Payloads ==
    { PodNull, PodString(<<"a">>), PodArray(<<PodNull>>),
      PodHash([k \in {"f"} |-> PodInteger(16)]) }

EnumPods ==
    { PodString(<<name>>) : name \in VariantNames }
    \cup { PodHash([k \in {key} |-> value]) :
              key \in VariantNames, value \in Payloads }
    \cup { PodHash(<<>>) }
    \cup { PodHash([k \in {"u", key} |-> PodNull]) : key \in {"n", "t"} }

\* the Pods handed to a Deserialize impl
DePods ==
    { PodInteger(n) : n \in IntSamples }
    \cup { PodNull, PodString(<<"a">>), PodFloat(1601), PodBoolean(TRUE) }
    \cup EnumPods

\* the Matter is not used while a Pod is deserialized
MatterUnused ==
    /\ delimiter = CfgDefault.delimiter
    /\ close_delimiter = CfgDefault.close_delimiter
    /\ excerpt_delimiter = CfgDefault.excerpt_delimiter
    /\ input = <<>> /\ pc = "idle" /\ looking_at = "MaybeExcerpt"
    /\ lines = <<>> /\ acc = <<>> /\ parsed_entity = NewParsedEntity(<<>>)
    /\ steps = 0 /\ prev = None /\ with_struct = None

InitDe ==
    /\ MatterUnused
    /\ pod \in DePods
    /\ pod_op = NoOp
    /\ access = NoAccess

\* let x: t = pod.deserialize()  for an integer type t
DeserializeInt ==
    /\ \E t \in IntTargets :
          pod_op' = [op |-> "deserialize_int", before |-> pod,
                     args |-> <<t>>, out |-> DeserializeInteger(pod, t)]
    /\ UNCHANGED pod
    /\ UNCHANGED <<matterVars, access>>

\* let x: E = pod.deserialize()  for the enum E
DeserializeAsEnum ==
    /\ pod_op' = [op |-> "deserialize_enum", before |-> pod, args |-> <<>>,
                  out |-> DeserializeEnum(pod)]
    /\ UNCHANGED pod
    /\ UNCHANGED <<matterVars, access>>

\* the caller turns to another Pod
NextPodValue ==
    /\ \E p \in DePods \ {pod} : pod' = p
    /\ pod_op' = NoOp
    /\ UNCHANGED <<matterVars, access>>

NextDe == DeserializeInt \/ DeserializeAsEnum \/ NextPodValue

SpecDe == InitDe /\ [][NextDe]_vars

----------------------------------------------------------------------------
(* PodArrayAccess, PodMapAccess and the PodVisitor that rebuilds a Pod *)

\* calls made on one cursor
MaxCalls == MaxArrayLen + 3

\* HashMap iterates in an unspecified order: any ranking of the keys
KeyOrders ==
    { o \in [1..Cardinality(Keys) -> Keys] :
        \A i, j \in DOMAIN o : o[i] = o[j] => i = j }

\* hash.iter() under the ranking ord
RECURSIVE HashIter(_, _)
HashIter(hash, ord) ==
    IF Len(ord) = 0 THEN <<>>
    ELSE IF Head(ord) \in DOMAIN hash
    THEN <<[key |-> Head(ord), value |-> hash[Head(ord)]]>>
            \o HashIter(hash, Tail(ord))
    ELSE HashIter(hash, Tail(ord))

\* mutant: the cursor steps over the element after the one it yields
SeqNextSkipping(iter) ==
    IF Len(iter) = 0 THEN [out |-> None, iter |-> iter]
    ELSE [out |-> Some(Head(iter)),
          iter |-> IF Len(iter) >= 2 THEN Tail(Tail(iter)) ELSE Tail(iter)]

\* PodArrayAccess::next_element_seed: self.iter.next(), before the seed
SeqNext(iter) ==
    IF Len(iter) = 0 THEN [out |-> None, iter |-> iter]
    ELSE [out |-> Some(Head(iter)), iter |-> Tail(iter)]

\* PodArrayAccess::size_hint, PodMapAccess::size_hint
SizeHint(a) == Len(a.iter)

\* PodMapAccess::next_key_seed; the key goes through PodStringDeserializer
MapNextKey(m) ==
    IF Len(m.iter) = 0
    THEN [out |-> Returned(None), iter |-> m.iter, value |-> m.value]
    ELSE [out |-> Returned(Some(Head(m.iter).key)), iter |-> Tail(m.iter),
          value |-> Some(Head(m.iter).value)]

\* mutant: the value stays in the cursor after it was handed out
MapNextValueKept(m) ==
    IF IsSome(m.value)
    THEN [out |-> Returned(m.value[1]), iter |-> m.iter, value |-> m.value]
    ELSE [out |-> PodDeserializeError("value is missing"), iter |-> m.iter,
          value |-> None]

\* PodMapAccess::next_value_seed: self.value.take(), before the seed
MapNextValue(m) ==
    IF IsSome(m.value)
    THEN [out |-> Returned(m.value[1]), iter |-> m.iter, value |-> None]
    ELSE [out |-> PodDeserializeError("value is missing"), iter |-> m.iter,
          value |-> None]

RECURSIVE DeserializeAny(_, _)
RECURSIVE VisitSeq(_, _, _)
RECURSIVE VisitMap(_, _, _)

\* PodVisitor::visit_seq: while let Some(elem) = seq.next_element()?
VisitSeq(iter, vec, ord) ==
    LET n == SeqNext(iter)
    IN  IF IsNone(n.out) THEN Returned(PodArray(vec))
        ELSE LET elem == DeserializeAny(n.out[1], ord)
             IN  IF elem.kind # "value" THEN elem
                 ELSE VisitSeq(n.iter, VecPush(vec, elem.val), ord)

\* mutant: `if let` in place of `while let`, one entry is taken
VisitMapOnce(m, hash, ord) ==
    LET k == MapNextKey(m)
    IN  IF IsNone(k.out.val) THEN Returned(PodHash(hash))
        ELSE LET v == MapNextValue([iter |-> k.iter, value |-> k.value])
                 value == DeserializeAny(v.out.val, ord)
             IN  IF v.out.kind # "value" THEN v.out
                 ELSE IF value.kind # "value" THEN value
                 ELSE Returned(PodHash(HashInsert(hash, k.out.val[1],
                                                  value.val)))

\* PodVisitor::visit_map: while let Some((key, value)) = map.next_entry()?
VisitMap(m, hash, ord) ==
    LET k == MapNextKey(m)
    IN  IF IsNone(k.out.val) THEN Returned(PodHash(hash))
        ELSE LET v == MapNextValue([iter |-> k.iter, value |-> k.value])
                 value == DeserializeAny(v.out.val, ord)
             IN  IF v.out.kind # "value" THEN v.out
                 ELSE IF value.kind # "value" THEN value
                 ELSE VisitMap([iter |-> v.iter, value |-> v.value],
                               HashInsert(hash, k.out.val[1], value.val),
                               ord)

\* <Pod as Deserialize>::deserialize(&pod): deserialize_any(PodVisitor)
DeserializeAny(p, ord) ==
    CASE p.tag = "Null" -> Returned(PodNull)                \* visit_unit
      [] p.tag = "String" -> Returned(PodString(p.val))     \* visit_str
      [] p.tag = "Integer" -> Returned(PodInteger(p.val))   \* visit_i64
      [] p.tag = "Float" -> Returned(PodFloat(p.val))       \* visit_f64
      [] p.tag = "Boolean" -> Returned(PodBoolean(p.val))   \* visit_bool
      [] p.tag = "Array" -> VisitSeq(p.val, <<>>, ord)
      [] p.tag = "Hash" ->
            VisitMap([iter |-> HashIter(p.val, ord), value |-> None],
                     <<>>, ord)

\* arrays and mappings that hold arrays and mappings
NestedElems ==
    { PodNull, PodArray(<<>>), PodArray(<<PodInteger(16)>>), PodHash(<<>>),
      PodHash([k \in {"hello"} |-> PodArray(<<PodString(<<"a">>)>>)]) }

NestedPods ==
    { PodArray(vec) :
        vec \in UNION { [1..n -> NestedElems] : n \in 1..MaxArrayLen } }
    \cup { PodHash(hash) :
             hash \in UNION { [K -> NestedElems] : K \in SUBSET Keys \ {{}} } }

AccessPods == PodValues \cup NestedPods

InitAccess ==
    /\ MatterUnused
    /\ pod \in AccessPods
    /\ pod_op = NoOp
    /\ access = NoAccess

\* let converted: Pod = pod.deserialize()
DeserializePod ==
    /\ \E ord \in KeyOrders :
          pod_op' = [op |-> "deserialize_pod", before |-> pod,
                     args |-> <<>>, out |-> DeserializeAny(pod, ord)]
    /\ UNCHANGED <<pod, access>>
    /\ UNCHANGED matterVars

\* PodArrayAccess::new(arr), as deserialize_seq and deserialize_any do
NewArrayAccess ==
    /\ pod.tag = "Array"
    /\ access' = [kind |-> "array", iter |-> pod.val, value |-> None,
                  calls |-> <<>>]
    /\ UNCHANGED <<pod, pod_op>>
    /\ UNCHANGED matterVars

\* seq.next_element::<Pod>()
NextElement ==
    /\ access.kind = "array"
    /\ Len(access.calls) < MaxCalls
    /\ \E ord \in KeyOrders :
          LET n == SeqNext(access.iter)
              out == IF IsNone(n.out) THEN Returned(None)
                     ELSE LET elem == DeserializeAny(n.out[1], ord)
                          IN  IF elem.kind # "value" THEN elem
                              ELSE Returned(Some(elem.val))
          IN  access' = [access EXCEPT
                           !.iter = n.iter,
                           !.calls = Append(@, [op |-> "next_element",
                                                out |-> out])]
    /\ UNCHANGED <<pod, pod_op>>
    /\ UNCHANGED matterVars

\* PodMapAccess::new(map), as deserialize_map and deserialize_any do
NewMapAccess ==
    /\ pod.tag = "Hash"
    /\ \E ord \in KeyOrders :
          access' = [kind |-> "map", iter |-> HashIter(pod.val, ord),
                     value |-> None, calls |-> <<>>]
    /\ UNCHANGED <<pod, pod_op>>
    /\ UNCHANGED matterVars

\* map.next_key::<String>()
NextKey ==
    /\ access.kind = "map"
    /\ Len(access.calls) < MaxCalls
    /\ LET k == MapNextKey(access)
       IN  access' = [access EXCEPT
                        !.iter = k.iter, !.value = k.value,
                        !.calls = Append(@, [op |-> "next_key",
                                             out |-> k.out])]
    /\ UNCHANGED <<pod, pod_op>>
    /\ UNCHANGED matterVars

\* map.next_value::<Pod>()
NextValue ==
    /\ access.kind = "map"
    /\ Len(access.calls) < MaxCalls
    /\ \E ord \in KeyOrders :
          LET v == MapNextValue(access)
              out == IF v.out.kind # "value" THEN v.out
                     ELSE DeserializeAny(v.out.val, ord)
          IN  access' = [access EXCEPT
                           !.iter = v.iter, !.value = v.value,
                           !.calls = Append(@, [op |-> "next_value",
                                                out |-> out])]
    /\ UNCHANGED <<pod, pod_op>>
    /\ UNCHANGED matterVars

NextAccess ==
    \/ DeserializePod
    \/ NewArrayAccess \/ NextElement
    \/ NewMapAccess \/ NextKey \/ NextValue

SpecAccess == InitAccess /\ [][NextAccess]_vars

----------------------------------------------------------------------------
(* Vocabulary of the claims: the input seen as text, independent of the scan *)

Done == pc = "done"

\* the lines of the input as written (trailing whitespace kept)
InLines == Lines(input)

\* s[from..] for a sequence of lines
LinesFrom(ls, from) == SubSeq(ls, from, Len(ls))

\* the input has a line break and its first line, trailing whitespace
\* ignored, is the open delimiter
OpensBlock ==
    /\ Find(input, NL) # 0
    /\ TrimEnd(SubSeq(input, 1, Find(input, NL) - 1)) = delimiter

\* lines after the first that equal d, trailing whitespace ignored
LaterLinesEqual(d) ==
    { k \in 2..Len(InLines) : TrimEnd(InLines[k]) = d }

Min(S) == CHOOSE x \in S : \A y \in S : x <= y

\* is `part` an infix of `whole`?
Contains(whole, part) ==
    \E i \in 0..(Len(whole) - Len(part)) :
        SubSeq(whole, i + 1, i + Len(part)) = part

\* the same lines without their trailing whitespace
TrimEach(ls) == [i \in 1..Len(ls) |-> TrimEnd(ls[i])]

\* lines as one text: joined by "\n", trailing whitespace of each line and
\* the final line break aside
TextOf(ls) == Join(TrimEach(ls))

\* the first line of the input, up to the first line break
FirstLine ==
    IF Find(input, NL) = 0 THEN input
    ELSE SubSeq(input, 1, Find(input, NL) - 1)

\* index of the first later line that equals the open or the close delimiter
ClosingLines == LaterLinesEqual(CloseDelimiter) \cup LaterLinesEqual(delimiter)
BlockCloseIdx == Min(ClosingLines)

\* the input opens a block and a later line closes it
ClosedBlock == OpensBlock /\ ClosingLines # {}

\* t is the text of some tail of the lines after line k
FromLinesAfter(t, k) ==
    \E j \in k..Len(InLines) : t = TextOf(LinesFrom(InLines, j + 1))

----------------------------------------------------------------------------
(* C1 *)

\* C1 as stated: when the first line (trailing whitespace ignored) is the
\* open delimiter and a later line equals the close delimiter, `matter` is
\* the trimmed text between the first line and the first such line, and
\* `content` holds lines from after that line only.
C1_Original ==
    (Done /\ OpensBlock /\ LaterLinesEqual(CloseDelimiter) # {}) =>
        LET k == Min(LaterLinesEqual(CloseDelimiter))
        IN  /\ parsed_entity.matter = Trim(Join(SubSeq(InLines, 2, k - 1)))
            /\ FromLinesAfter(parsed_entity.content, k)

\* C1 amended: when the first line (trailing whitespace ignored) is the open
\* delimiter and a later line equals the close or the open delimiter
\* (trailing whitespace ignored), `matter` is the lines strictly between the
\* first line and the first such line, each without its trailing whitespace,
\* joined by line breaks and trimmed; `content` holds lines from after that
\* closing line only.
C1_MatterBetweenDelimiters ==
    (Done /\ ClosedBlock) =>
        /\ parsed_entity.matter =
               Trim(TextOf(SubSeq(InLines, 2, BlockCloseIdx - 1)))
        /\ FromLinesAfter(parsed_entity.content, BlockCloseIdx)

\* a closed block with text in it, closed by the open delimiter of an
\* asymmetric pair before any close delimiter, and content after it
C1_Witness ==
    /\ Done /\ ClosedBlock
    /\ LaterLinesEqual(CloseDelimiter) # {}
    /\ BlockCloseIdx < Min(LaterLinesEqual(CloseDelimiter))
    /\ parsed_entity.matter # <<>>
    /\ parsed_entity.content # <<>>

----------------------------------------------------------------------------
(* C2 *)

\* C2: an input that is empty or no longer than the open delimiter yields
\* empty content, data = None, excerpt = None and empty matter, whatever
\* its text.
C2_FastReject ==
    (Done /\ (input = <<>> \/ Len(input) <= Len(delimiter))) =>
        /\ parsed_entity.content = <<>>
        /\ parsed_entity.data = None
        /\ parsed_entity.excerpt = None
        /\ parsed_entity.matter = <<>>

\* a non-empty input of exactly the delimiter's length that is itself a
\* delimiter line has been parsed
C2_Witness ==
    /\ Done
    /\ input = delimiter
    /\ parsed_entity.orig = input

----------------------------------------------------------------------------
(* C3 *)

\* the first line starts with the open delimiter and carries further
\* non-whitespace characters
ExtraOnFirstLine ==
    /\ StartsWith(FirstLine, delimiter)
    /\ TrimEnd(FirstLine) # delimiter

----------------------------------------------------------------------------
(* C4 *)

\* a parse call is running or has just returned
InParse == pc \in {"loop", "done"}

\* the open and the close delimiter in force
Delims == {delimiter, CloseDelimiter}

\* the line contains a delimiter without being one
MerelyContains(l) ==
    /\ Contains(l, delimiter) \/ Contains(l, CloseDelimiter)
    /\ Trim(l) \notin Delims

\* indices (into InLines) of the lines the loop has consumed so far
Consumed == IF OpensBlock THEN 2..(steps + 1) ELSE 1..steps

\* indices of the lines scanned while looking at Part::Matter
BlockLines ==
    IF ~OpensBlock THEN {}
    ELSE IF ClosingLines = {} THEN 2..Len(InLines)
    ELSE 2..(BlockCloseIdx - 1)

\* the scanner has left the block only if a consumed line, trimmed, equals
\* the close or the open delimiter in full
ClosedOnlyByDelimiterLine ==
    (InParse /\ OpensBlock /\ looking_at # "Matter") =>
        \E k \in Consumed : Trim(InLines[k]) \in Delims

----------------------------------------------------------------------------
(* C5 *)

\* the text of the block: its lines, trimmed
BlockText == Trim(TextOf(SubSeq(InLines, 2, BlockCloseIdx - 1)))

\* the text after the closing line, leading line breaks dropped
AfterBlockText ==
    TrimStartMatches(TextOf(LinesFrom(InLines, BlockCloseIdx + 1)), NL)

\* C5: from the step that consumes the closing line on, the scanner never
\* looks at Part::Matter again and `data` and `matter` keep the value the
\* closing line gave them (they are set at most once), whatever the later
\* lines are; every line after the closing line is part of `content` (line
\* by line; leading blank lines and trailing whitespace of a line aside).
C5_NoSecondBlock ==
    (InParse /\ ClosedBlock /\ steps + 1 >= BlockCloseIdx) =>
        /\ looking_at # "Matter"
        /\ parsed_entity.matter = BlockText
        /\ parsed_entity.data =
               IF BlockText = <<>> THEN None ELSE Some(EngineParse(BlockText))
        /\ Done => parsed_entity.content = AfterBlockText

\* "---\nname\n---\n---\n---"-like input: two rogue delimiter lines after a
\* block with text
C5_Witness ==
    /\ Done /\ ClosedBlock
    /\ Len(InLines) = BlockCloseIdx + 2
    /\ \A k \in (BlockCloseIdx + 1)..Len(InLines) : InLines[k] = delimiter
    /\ parsed_entity.matter # <<>>
    /\ parsed_entity.content = Join(<<delimiter, delimiter>>)

----------------------------------------------------------------------------
(* C6 *)

\* the call has scanned the input (it was not rejected for its length)
Scanned == Done /\ ~FastReject(input, delimiter)

\* index of the first line scanned while looking for the excerpt: the first
\* line when no block opens, the line after the closing line of a closed
\* block, none in a block that is never closed
ScanStart ==
    IF ~OpensBlock THEN 1
    ELSE IF ClosedBlock THEN BlockCloseIdx + 1
    ELSE Len(InLines) + 1

\* scanned lines that end with the excerpt delimiter (trailing whitespace
\* ignored)
BoundaryLines ==
    { k \in ScanStart..Len(InLines) :
        EndsWith(TrimEnd(InLines[k]), ExcerptDelimiter) }

HasBoundary == BoundaryLines # {}
BoundaryIdx == Min(BoundaryLines)

\* the part of the boundary line before the delimiter
BoundaryPrefix == StripSuffix(TrimEnd(InLines[BoundaryIdx]), ExcerptDelimiter)

\* the scanned lines before the boundary line
Preceding == SubSeq(InLines, ScanStart, BoundaryIdx - 1)

\* the scanned lines as one text, leading line breaks dropped
ScannedText == TrimStartMatches(TextOf(LinesFrom(InLines, ScanStart)), NL)

\* the preceding lines and the boundary prefix joined by line breaks, without
\* leading line breaks and trailing whitespace
ExpectedExcerpt ==
    TrimEnd(TrimStartMatches(
        Join(TrimEach(Preceding) \o <<BoundaryPrefix>>), NL))

\* C6 as stated: when a scanned line ends with the excerpt delimiter, the
\* first such line is the boundary, `excerpt` is the preceding scanned lines
\* joined by line breaks followed by the part of the boundary line before the
\* delimiter (trimmed as C7 says), and `content` still holds every scanned
\* line, boundary line and later lines included.
C6_ExcerptSuffixRule ==
    (Scanned /\ HasBoundary) =>
        /\ parsed_entity.excerpt = Some(ExpectedExcerpt)
        /\ parsed_entity.content = ScannedText
        /\ Contains(parsed_entity.content, TrimEnd(InLines[BoundaryIdx]))

----------------------------------------------------------------------------
(* C7 *)

\* C7 as stated: a returned excerpt never begins with a line break and never
\* ends with whitespace.
C7_ExcerptTrimmed ==
    (Done /\ IsSome(parsed_entity.excerpt)) =>
        LET e == parsed_entity.excerpt[1]
        IN  e # <<>> => (e[1] # NL /\ ~IsWhitespace(e[Len(e)]))

----------------------------------------------------------------------------
(* C8 *)

\* the value the first boundary line gives the excerpt
FirstBoundaryExcerpt ==
    ExcerptOf(TextOf(Preceding), TrimEnd(InLines[BoundaryIdx]),
              ExcerptDelimiter)

\* C8 as stated: `excerpt` is Some exactly when some line after the block
\* (any line when there is no block) ends with the excerpt delimiter.
C8_Original ==
    Done => (IsSome(parsed_entity.excerpt) <=> HasBoundary)

\* C8 amended: for an input longer than the open delimiter, `excerpt` is Some
\* exactly when some line after the closed block (any line when no block
\* opens, no line when the block is never closed) ends with the excerpt
\* delimiter; and from the step that sets it to the return, the excerpt is
\* the value the first such line gave it, whatever later lines end with.
C8_ExcerptIffBoundary ==
    /\ Scanned => (IsSome(parsed_entity.excerpt) <=> HasBoundary)
    /\ (InParse /\ IsSome(parsed_entity.excerpt)) =>
           /\ HasBoundary
           /\ parsed_entity.excerpt = Some(FirstBoundaryExcerpt)

\* two different lines after a closed block end with the excerpt delimiter
C8_Witness ==
    /\ Done /\ ClosedBlock
    /\ IsSome(parsed_entity.excerpt)
    /\ \E k \in BoundaryLines :
          /\ k # BoundaryIdx
          /\ InLines[k] # InLines[BoundaryIdx]

----------------------------------------------------------------------------
(* C9 *)

IsBlank(l) == TrimEnd(l) = <<>>

\* indices of the lines of a closed block
BlockIdx == 2..(BlockCloseIdx - 1)

\* C9: a closed block with no line, or with blank and whitespace-only lines
\* only, yields data = None and empty matter, and `content` is the text after
\* the closing line (line by line; leading blank lines and trailing
\* whitespace of a line aside).
C9_BlankBlock ==
    (Done /\ ClosedBlock /\ \A i \in BlockIdx : IsBlank(InLines[i])) =>
        /\ parsed_entity.data = None
        /\ parsed_entity.matter = <<>>
        /\ parsed_entity.content = AfterBlockText

\* a block of blank lines, one of them holding whitespace, and content after
C9_Witness ==
    /\ Done /\ ClosedBlock
    /\ BlockIdx # {}
    /\ \A i \in BlockIdx : IsBlank(InLines[i])
    /\ \E i \in BlockIdx : InLines[i] # <<>>
    /\ parsed_entity.content # <<>>
    /\ parsed_entity.data = None

----------------------------------------------------------------------------
(* C10 *)

\* the block has lines and each starts, after optional whitespace, with '#'
CommentOnly ==
    /\ BlockIdx # {}
    /\ \A i \in BlockIdx : IsCommentLine(InLines[i])

\* C10 as stated: a closed block of comment-like lines only yields
\* data = None, and `content` is the text after the closing line.
C10_CommentOnlyBlock ==
    (Done /\ ClosedBlock /\ CommentOnly) =>
        /\ parsed_entity.data = None
        /\ parsed_entity.content = AfterBlockText

----------------------------------------------------------------------------
(* C11 *)

\* the engine's loader rejects the text of the closed block
MalformedBlock ==
    /\ BlockText # <<>>
    /\ ~YamlLoadFromStr(BlockText).ok

\* C11 as stated: a closed block whose non-empty text the engine cannot parse
\* yields data = None, while `content` is the text after the closing line and
\* `excerpt` is set exactly when a line after the block ends with the excerpt
\* delimiter.
C11_MalformedIsAbsent ==
    (Done /\ ClosedBlock /\ MalformedBlock) =>
        /\ parsed_entity.data = None
        /\ parsed_entity.content = AfterBlockText
        /\ IsSome(parsed_entity.excerpt) <=> HasBoundary

----------------------------------------------------------------------------
(* C12 *)

\* C12 as stated: data is Some only if the first line is the configured open
\* delimiter and the block ends at a line equal to the configured close
\* delimiter (trailing whitespace ignored), the delimiters being those in the
\* fields when parse is called.
C12_Original ==
    (Done /\ IsSome(parsed_entity.data)) =>
        /\ ClosedBlock
        /\ TrimEnd(InLines[BlockCloseIdx]) = CloseDelimiter

\* C12 amended: data is Some exactly when the first line is the configured
\* open delimiter, a later line equals the configured close delimiter or the
\* open delimiter, and the text between them is not blank (trailing
\* whitespace of the lines ignored); the delimiters are those held by the
\* fields when parse is called, so a change between two calls takes effect
\* on the next call.
C12_ConfiguredDelimiters ==
    Done => (IsSome(parsed_entity.data) <=> (ClosedBlock /\ BlockText # <<>>))

\* after the delimiters were changed to "<!--" and "-->", a "---" block is
\* parsed as content
C12_Witness ==
    /\ Done
    /\ delimiter = Open4 /\ close_delimiter = Some(Close3)
    /\ input = Join(<<Dash3, <<"a">>, Dash3>>)
    /\ parsed_entity.data = None
    /\ parsed_entity.content = input

----------------------------------------------------------------------------
(* C13 *)

\* the running call was given the content of an earlier result with front
\* matter, and that content does not start with a delimiter line
ReparsedContent ==
    /\ Done
    /\ IsSome(prev)
    /\ IsSome(prev[1].data)
    /\ input = prev[1].content
    /\ TrimEnd(FirstLine) # delimiter

\* C13 as stated: parsing the content of a result that found front matter,
\* when that content does not start with a delimiter line, returns
\* data = None and a content equal to the text that was parsed, whatever its
\* length.
C13_Idempotence ==
    ReparsedContent =>
        /\ parsed_entity.data = None
        /\ parsed_entity.content = input

----------------------------------------------------------------------------
(* C14 *)

\* a line that is compared as a delimiter or as the excerpt boundary
IsDelimiterLike(l) ==
    \/ TrimEnd(l) \in Delims
    \/ EndsWith(TrimEnd(l), ExcerptDelimiter)

\* index of the first line that goes to `content`: the first line when no
\* block opens, the line after the closing line of a closed block, the line
\* after the open delimiter of a block that is never closed
ContentStart ==
    IF ~OpensBlock THEN 1
    ELSE IF ClosedBlock THEN BlockCloseIdx + 1
    ELSE 2

\* the content lines, only the delimiter and boundary lines trimmed
VerbatimLines ==
    LET ls == LinesFrom(InLines, ContentStart)
    IN  [i \in 1..Len(ls) |->
            IF IsDelimiterLike(ls[i]) THEN TrimEnd(ls[i]) ELSE ls[i]]

\* C14 as stated: `content` holds every content line verbatim, its trailing
\* spaces included; only delimiter and boundary lines are trimmed (leading
\* line breaks and the final line break aside).
C14_TrailingSpacesKept ==
    Scanned =>
        parsed_entity.content = TrimStartMatches(Join(VerbatimLines), NL)

----------------------------------------------------------------------------
(* C15 *)

\* the lines that go to `content`
ContentLines == LinesFrom(InLines, ContentStart)

\* positions of the content lines that are not blank
NonBlank == { i \in 1..Len(ContentLines) : ~IsBlank(ContentLines[i]) }

----------------------------------------------------------------------------
(* C16 *)

\* C16: parse_with_struct::<D>(input) returns None exactly when the data of
\* parse(input) is None or cannot be deserialized into D; otherwise its
\* content, excerpt, orig and matter are those of parse(input), and orig is
\* the input.
C16_ParseWithStructRefinesParse ==
    (Done /\ IsSome(with_struct)) =>
        LET D == with_struct[1].target
            r == with_struct[1].result
        IN  /\ IsNone(r) <=>
                  \/ IsNone(parsed_entity.data)
                  \/ ~Deserialize(parsed_entity.data[1], D).ok
            /\ IsSome(r) =>
                  /\ r[1].content = parsed_entity.content
                  /\ r[1].excerpt = parsed_entity.excerpt
                  /\ r[1].orig = parsed_entity.orig
                  /\ r[1].matter = parsed_entity.matter
                  /\ r[1].orig = input

\* front matter that is a string was asked for as a struct: None although
\* parse found front matter, content and an excerpt
C16_Witness ==
    /\ Done /\ IsSome(with_struct)
    /\ with_struct[1].target = "struct"
    /\ with_struct[1].result = None
    /\ IsSome(parsed_entity.data)
    /\ IsSome(parsed_entity.excerpt)
    /\ parsed_entity.content # <<>>

----------------------------------------------------------------------------
(* C17 *)

\* C17 as stated: an indexed read never fails; an Array read at an index at
\* or past its length yields Null, and a Hash read with an absent key yields
\* Null.
C17_ReadsNeverFail ==
    /\ pod_op.op \in {"index_usize", "index_string"} =>
          pod_op.out.kind = "value"
    /\ ( /\ pod_op.op = "index_usize"
         /\ pod_op.before.tag = "Array"
         /\ pod_op.args[1] >= Len(pod_op.before.val) ) =>
          pod_op.out = Returned(PodNull)
    /\ ( /\ pod_op.op = "index_string"
         /\ pod_op.before.tag = "Hash"
         /\ pod_op.args[1] \notin DOMAIN pod_op.before.val ) =>
          pod_op.out = Returned(PodNull)

----------------------------------------------------------------------------
(* C18 *)

\* the last operation was `pod[i] = v` on an Array with i at or past its end
WroteOutOfBounds ==
    /\ pod_op.op = "index_mut_usize"
    /\ pod_op.before.tag = "Array"
    /\ pod_op.args[1] >= Len(pod_op.before.val)

\* C18 as stated: after `pod[i] = v` on an Array with i >= its length, the
\* Array has length i + 1, position i holds v, the positions from the old
\* length up to i hold Null and the old elements are unchanged.
C18_WriteExtendsWithNull ==
    WroteOutOfBounds =>
        LET i == pod_op.args[1]
            v == pod_op.args[2]
            old == pod_op.before.val
        IN  /\ pod.tag = "Array"
            /\ Len(pod.val) = i + 1
            /\ pod.val[i + 1] = v
            /\ \A j \in (Len(old) + 1)..i : pod.val[j] = PodNull
            /\ \A j \in 1..Len(old) : pod.val[j] = old[j]

----------------------------------------------------------------------------
(* C19 *)

\* C19: after `pod[key] = v` on a Pod that is not a Hash, the Pod is a Hash
\* holding exactly {key: v}; on a Hash, the key holds v, every other entry
\* is unchanged and no other key appears.
C19_StringWrite ==
    pod_op.op = "index_mut_string" =>
        LET key == pod_op.args[1]
            v == pod_op.args[2]
            old == pod_op.before
        IN  /\ pod.tag = "Hash"
            /\ key \in DOMAIN pod.val
            /\ pod.val[key] = v
            /\ old.tag # "Hash" => DOMAIN pod.val = {key}
            /\ old.tag = "Hash" =>
                  /\ DOMAIN pod.val = DOMAIN old.val \cup {key}
                  /\ \A k \in DOMAIN old.val \ {key} : pod.val[k] = old.val[k]

\* an Array became a one-entry Hash
C19_Witness ==
    /\ pod_op.op = "index_mut_string"
    /\ pod_op.before.tag = "Array"
    /\ pod_op.before.val # <<>>
    /\ pod = PodHash(HashInsert(<<>>, pod_op.args[1], pod_op.args[2]))

----------------------------------------------------------------------------
(* C20 *)

IsTypeError(out, expected) == out.kind = "TypeError" /\ out.val = expected

\* C20: a typed extraction returns the stored value when the Pod has the
\* matching tag and otherwise a TypeError naming the expected tag; the Pod
\* is not changed and no tag is converted into another (as_f64 on an
\* Integer and as_i64 on a Float fail).
C20_TypedExtraction ==
    pod_op.op \in Extractions =>
        /\ pod = pod_op.before
        /\ pod.tag = ExpectedTag(pod_op.op) =>
              /\ pod_op.out.kind = "value"
              /\ pod_op.out.val = pod.val
        /\ pod.tag # ExpectedTag(pod_op.op) =>
              IsTypeError(pod_op.out, ExpectedTag(pod_op.op))
        /\ (pod_op.op = "as_f64" /\ pod.tag = "Integer") =>
              IsTypeError(pod_op.out, "Float")
        /\ (pod_op.op = "as_i64" /\ pod.tag = "Float") =>
              IsTypeError(pod_op.out, "Integer")

\* as_f64 was called on an Integer
C20_Witness ==
    /\ pod_op.op = "as_f64"
    /\ pod = PodInteger(16)
    /\ pod_op.out.kind = "TypeError"

----------------------------------------------------------------------------
(* C21 *)

\* C21 as stated: deserializing Pod::Integer(n) into an integer type either
\* fails or yields exactly n, whatever the width of the type.
C21_NoSilentTruncation ==
    ( /\ pod_op.op = "deserialize_int"
      /\ pod_op.before.tag = "Integer"
      /\ pod_op.out.kind = "value" ) =>
        pod_op.out.val = Exactly(pod_op.before.val)

----------------------------------------------------------------------------
(* C22 *)

\* the entry of a Hash with exactly one entry
OnlyKey(p) == CHOOSE k \in DOMAIN p.val : TRUE

\* the payload has the shape the kind of variant asks for
PayloadFits(kind, value) ==
    /\ kind = "unit" => value.tag = "Null"
    /\ kind = "tuple" => value.tag = "Array"
    /\ kind = "struct" => value.tag = "Hash"

\* C22: an enum request succeeds only on a String naming a unit variant
\* (a variant with a payload asked for on a String fails) or on a Hash with
\* exactly one entry whose key names the variant and whose value fits it
\* (Null for a unit variant, an Array for a tuple variant, a Hash for a
\* struct variant); for the variants of the enum these shapes do succeed,
\* and every other tag, the empty Hash and a Hash with two or more entries
\* fail.
C22_EnumShapes ==
    pod_op.op = "deserialize_enum" =>
        LET p == pod_op.before
        IN  pod_op.out.kind = "value" <=>
              \/ /\ p.tag = "String"
                 /\ NameOf(p.val) \in DOMAIN EnumVariants
                 /\ EnumVariants[NameOf(p.val)] = "unit"
              \/ /\ p.tag = "Hash"
                 /\ Cardinality(DOMAIN p.val) = 1
                 /\ OnlyKey(p) \in DOMAIN EnumVariants
                 /\ PayloadFits(EnumVariants[OnlyKey(p)], p.val[OnlyKey(p)])

\* a Hash with two entries, the first a valid unit variant, was refused
C22_Witness ==
    /\ pod_op.op = "deserialize_enum"
    /\ pod_op.before.tag = "Hash"
    /\ Cardinality(DOMAIN pod_op.before.val) = 2
    /\ pod_op.out.kind = "PodDeserializeError"

----------------------------------------------------------------------------
(* C23 *)

\* C23: deserializing a Pod into the type Pod returns Ok with a Pod equal
\* to the original, whatever its tag and whatever arrays and mappings are
\* nested in it.
C23_PodToPodIdentity ==
    pod_op.op = "deserialize_pod" =>
        /\ pod_op.out.kind = "value"
        /\ pod_op.out.val.tag = pod_op.before.tag
        /\ pod_op.out.val = pod_op.before

\* a mapping with two entries, one of them itself a mapping that holds an
\* array, was deserialized
C23_Witness ==
    /\ pod_op.op = "deserialize_pod"
    /\ pod_op.before.tag = "Hash"
    /\ DOMAIN pod_op.before.val = Keys
    /\ pod_op.before.val["hello"].tag = "Hash"
    /\ DOMAIN pod_op.before.val["hello"].val = {"hello"}
    /\ pod_op.out.kind = "value"

----------------------------------------------------------------------------
(* C24 *)

\* the calls made on the cursor, by position
Calls == access.calls
CallIdx == 1..Len(Calls)

\* number of key requests among the first i calls
RECURSIVE KeyRequests(_)
KeyRequests(i) ==
    IF i = 0 THEN 0
    ELSE KeyRequests(i - 1) + (IF Calls[i].op = "next_key" THEN 1 ELSE 0)

\* the i-th call yielded a key
YieldedKey(i) ==
    /\ Calls[i].op = "next_key"
    /\ Calls[i].out.kind = "value"
    /\ IsSome(Calls[i].out.val)

\* the i-th call failed
Failed(i) == Calls[i].out.kind = "PodDeserializeError"

\* C24: the mapping cursor yields every entry of the stored mapping exactly
\* once, as a key followed by its value: the keys yielded are distinct keys
\* of the mapping, a value request that follows a yielded key returns the
\* value stored under it, and once the key request reports the end every
\* key has been yielded.  A value request before any key request fails, a
\* second value request in a row fails, a key request after the last entry
\* reports the end, and the size hint is the number of entries whose key has
\* not been yielded.
C24_MapCursor ==
    access.kind = "map" =>
        LET n == Cardinality(DOMAIN pod.val)
        IN  /\ SizeHint(access) = n - Min({n, KeyRequests(Len(Calls))})
            /\ \A i \in CallIdx :
                 /\ Calls[i].op = "next_key" =>
                      /\ ~Failed(i)
                      /\ YieldedKey(i) <=> KeyRequests(i) <= n
                      /\ YieldedKey(i) =>
                           /\ Calls[i].out.val[1] \in DOMAIN pod.val
                           /\ \A j \in 1..(i - 1) :
                                YieldedKey(j) =>
                                  Calls[j].out.val[1] # Calls[i].out.val[1]
                 /\ Calls[i].op = "next_value" =>
                      /\ KeyRequests(i) = 0 => Failed(i)
                      /\ (i > 1 /\ Calls[i - 1].op = "next_value") => Failed(i)
                      /\ (i > 1 /\ YieldedKey(i - 1)) =>
                           /\ Calls[i].out.kind = "value"
                           /\ Calls[i].out.val.tag =
                                pod.val[Calls[i - 1].out.val[1]].tag
                           /\ Calls[i].out.val =
                                pod.val[Calls[i - 1].out.val[1]]
            /\ (\E i \in CallIdx : Calls[i].op = "next_key" /\ ~YieldedKey(i))
                 => { Calls[i].out.val[1] : i \in { j \in CallIdx : YieldedKey(j) } }
                      = DOMAIN pod.val

\* both entries of a mapping were read as key, value, key, value, and the
\* next key request reported the end
C24_Witness ==
    /\ access.kind = "map"
    /\ Cardinality(DOMAIN pod.val) = 2
    /\ Len(Calls) = 5
    /\ YieldedKey(1) /\ Calls[2].out.kind = "value"
    /\ YieldedKey(3) /\ Calls[4].out.kind = "value"
    /\ Calls[5].op = "next_key" /\ Calls[5].out = Returned(None)

----------------------------------------------------------------------------
(* C25 *)

\* C25: the sequence cursor over an Array of length n yields the elements
\* in index order, one per request; after k requests the size hint is n - k
\* as long as k <= n, and every request after the n-th reports the end
\* without failing and leaves the hint at 0.
C25_SeqCursor ==
    access.kind = "array" =>
        LET n == Len(pod.val)
            k == Len(Calls)
        IN  /\ SizeHint(access) = IF k <= n THEN n - k ELSE 0
            /\ \A i \in CallIdx :
                 /\ Calls[i].out.kind = "value"
                 /\ IsSome(Calls[i].out.val) <=> i <= n
                 /\ i <= n =>
                      /\ Calls[i].out.val[1].tag = pod.val[i].tag
                      /\ Calls[i].out.val[1] = pod.val[i]

\* an Array of two elements was read to its end and asked twice more
C25_Witness ==
    /\ access.kind = "array"
    /\ Len(pod.val) = 2
    /\ Len(Calls) = 4
    /\ Calls[4].out = Returned(None)
    /\ SizeHint(access) = 0

----------------------------------------------------------------------------
(* C26 *)

\* the line the next loop step looks at, as the loop sees it
CurrentLine == TrimEnd(Head(lines))

\* C26: in every loop step of a parse call the scanner state stays where it
\* is or moves one step along Matter -> MaybeExcerpt -> Content: it leaves
\* Matter only on a line that equals the close or the open delimiter, leaves
\* MaybeExcerpt only on a line that ends with the excerpt delimiter (trailing
\* whitespace of the line aside in both cases), and never leaves Content.
C26_ForwardOnly ==
    [][ (pc = "loop" /\ lines # <<>> /\ steps' = steps + 1) =>
          /\ looking_at = "Matter" =>
               /\ looking_at' \in {"Matter", "MaybeExcerpt"}
               /\ looking_at' = "MaybeExcerpt" =>
                    CurrentLine \in {delimiter, CloseDelimiter}
          /\ looking_at = "MaybeExcerpt" =>
               /\ looking_at' \in {"MaybeExcerpt", "Content"}
               /\ looking_at' = "Content" =>
                    EndsWith(CurrentLine, ExcerptDelimiter)
          /\ looking_at = "Content" => looking_at' = "Content" ]_vars

\* the scan went through a block with metadata, then through an excerpt,
\* and is in the content with a delimiter line still to come
C26_Witness ==
    /\ pc = "loop"
    /\ looking_at = "Content"
    /\ parsed_entity.matter # <<>>
    /\ IsSome(parsed_entity.excerpt)
    /\ lines # <<>>
    /\ CurrentLine = delimiter

----------------------------------------------------------------------------
(* C27 *)

\* number of lines of the input after the opening delimiter line, if any
LinesAfterOpening ==
    IF OpensBlock THEN Len(InLines) - 1 ELSE Len(InLines)

\* C27 as stated: every call finishes after as many loop steps as the input
\* has lines after the optional opening delimiter line.
C27_Original == Done => steps = LinesAfterOpening

\* C27: every parse call that has been entered returns.  Unless the input is
\* rejected at the entry (empty or not longer than the delimiter: no loop
\* step at all), the lines still to be examined are at every moment the
\* lines of the input after the opening delimiter line and after the lines
\* examined so far, in the input's order, and the call finishes after as
\* many loop steps as there are lines after the optional opening line.
C27_Termination ==
    /\ [](InParse /\ ~FastReject(input, delimiter) =>
            /\ steps <= LinesAfterOpening
            /\ lines = LinesFrom(InLines,
                                 Len(InLines) - LinesAfterOpening + steps + 1))
    /\ [](Done => steps = IF FastReject(input, delimiter) THEN 0
                          ELSE LinesAfterOpening)
    /\ (pc = "loop" ~> Done)

\* a call on a block of three lines after the opening line has returned
C27_Witness ==
    /\ Done
    /\ OpensBlock
    /\ Len(InLines) = 4
    /\ steps = 3

----------------------------------------------------------------------------
(* C28 *)

----------------------------------------------------------------------------
(* C29 *)

\* the first line opens a block and no later line closes it
UnclosedBlock == OpensBlock /\ ClosingLines = {}

----------------------------------------------------------------------------
(* C30 *)

\* the Pod is what it was before the last operation
Untouched ==
    /\ pod.tag = pod_op.before.tag
    /\ pod = pod_op.before

\* C30: push on a Pod that is not an Array and insert on a Pod that is not a
\* Hash return the TypeError naming "Array", respectively "Hash", and leave
\* the Pod as it was; on an Array push returns Ok and the Array is the old
\* one with the value appended at the end, on a Hash insert returns Ok and
\* the Hash maps the given key to the value and every other key as before.
C30_PushInsert ==
    /\ pod_op.op = "push" =>
          IF pod_op.before.tag = "Array"
          THEN /\ pod_op.out.kind = "value"
               /\ pod.tag = "Array"
               /\ Len(pod.val) = Len(pod_op.before.val) + 1
               /\ pod.val = Append(pod_op.before.val, pod_op.args[1])
          ELSE /\ IsTypeError(pod_op.out, "Array")
               /\ Untouched
    /\ pod_op.op = "insert" =>
          IF pod_op.before.tag = "Hash"
          THEN /\ pod_op.out.kind = "value"
               /\ pod.tag = "Hash"
               /\ DOMAIN pod.val = DOMAIN pod_op.before.val \cup {pod_op.args[1]}
               /\ pod.val[pod_op.args[1]] = pod_op.args[2]
               /\ \A k \in DOMAIN pod_op.before.val \ {pod_op.args[1]} :
                     pod.val[k] = pod_op.before.val[k]
          ELSE /\ IsTypeError(pod_op.out, "Hash")
               /\ Untouched

\* a push was refused by a Hash, which still holds its entry
C30_Witness ==
    /\ pod_op.op = "push"
    /\ pod_op.before.tag = "Hash"
    /\ IsTypeError(pod_op.out, "Array")
    /\ "hello" \in DOMAIN pod.val

====
